---- MODULE Spec2Model ----
(***************************************************************************)
(* Model of the invoice server actions of app/lib/actions.ts:              *)
(* the validation schema (FormSchema, CreateInvoice, UpdateInvoice), the   *)
(* three actions createInvoice, updateInvoice, deleteInvoice, and the      *)
(* invoices table they write.                                              *)
(*                                                                         *)
(* Form fields are what FormData.get returns: null, a File or a string.    *)
(* The amount string is a sequence of characters so that the coercion      *)
(* Number(string) is computed and not assumed.  Numbers are exact decimal  *)
(* fractions num/den (den a power of ten), an idealisation of the IEEE     *)
(* doubles of the runtime that never turns a non-integer into an integer.  *)
(***************************************************************************)
EXTENDS Integers, Sequences, FiniteSets, TLC

VARIABLES invoices, nextId, today, last

vars == <<invoices, nextId, today, last>>

(***************************************************************************)
(* Bounds of the model.                                                    *)
(***************************************************************************)
MaxId == 2

MaxDay == 2

(***************************************************************************)
(* Values of form fields (FormDataEntryValue | null).                      *)
(***************************************************************************)
Null == [t |-> "null", s |-> ""]

File == [t |-> "file", s |-> ""]

Str(s) == [t |-> "str", s |-> s]

CustomerIdInputs == {Null, File, Str(""), Str("abc")}

AmountInputs ==
  { Null, File, Str(<<>>), Str(<<"0">>), Str(<<"-", "5">>),
    Str(<<"a", "b", "c">>), Str(<<"1", "5", ".", "5", "0">>),
    Str(<<".", "1", "2", "5">>) }

StatusInputs == {Null, Str("pending"), Str("paid"), Str("foo")}

\* The submissions: the one of the specification's example with one field
\* replaced by any value of that field, and the submission of an empty form.
ExampleForm ==
  [customerId |-> Str("abc"), amount |-> Str(<<"1", "5", ".", "5", "0">>),
   status |-> Str("paid")]

EmptyForm == [customerId |-> Null, amount |-> Null, status |-> Null]

FormInputs ==
  {[ExampleForm EXCEPT !.customerId = c] : c \in CustomerIdInputs}
    \cup {[ExampleForm EXCEPT !.amount = a] : a \in AmountInputs}
    \cup {[ExampleForm EXCEPT !.status = s] : s \in StatusInputs}
    \cup {EmptyForm}

(***************************************************************************)
(* Numbers.  Number(value) of the runtime, as z.coerce.number() applies    *)
(* it: null gives 0, an object that is not a string gives NaN, a string is *)
(* trimmed and read as an optionally signed decimal literal (the empty     *)
(* string gives 0).  The inputs are over the characters space, sign, dot,  *)
(* digits and letters other than the ones of exponents, radix prefixes and *)
(* "Infinity".                                                             *)
(***************************************************************************)
NaN == [nan |-> TRUE, num |-> 0, den |-> 1]

RECURSIVE Norm(_, _)
Norm(n, d) ==
  IF d > 1 /\ n % 10 = 0 THEN Norm(n \div 10, d \div 10)
  ELSE [nan |-> FALSE, num |-> n, den |-> d]

IsDigit(c) == c \in {"0", "1", "2", "3", "4", "5", "6", "7", "8", "9"}

DigitVal(c) ==
  CASE c = "0" -> 0 [] c = "1" -> 1 [] c = "2" -> 2 [] c = "3" -> 3
    [] c = "4" -> 4 [] c = "5" -> 5 [] c = "6" -> 6 [] c = "7" -> 7
    [] c = "8" -> 8 [] c = "9" -> 9

RECURSIVE TrimLeft(_)
TrimLeft(s) == IF s # <<>> /\ Head(s) = " " THEN TrimLeft(Tail(s)) ELSE s

RECURSIVE TrimRight(_)
TrimRight(s) ==
  IF s # <<>> /\ s[Len(s)] = " " THEN TrimRight(SubSeq(s, 1, Len(s) - 1)) ELSE s

RECURSIVE DigitsVal(_, _)
DigitsVal(s, acc) ==
  IF s = <<>> THEN acc ELSE DigitsVal(Tail(s), acc * 10 + DigitVal(Head(s)))

RECURSIVE Pow10(_)
Pow10(k) == IF k = 0 THEN 1 ELSE 10 * Pow10(k - 1)

DotPositions(s) == {i \in 1..Len(s) : s[i] = "."}

UnsignedDecimal(s) ==
  LET dots == DotPositions(s)
      p == IF dots = {} THEN Len(s) + 1 ELSE CHOOSE i \in dots : TRUE
      ip == SubSeq(s, 1, p - 1)
      fp == SubSeq(s, p + 1, Len(s))
  IN IF \/ Cardinality(dots) > 1
        \/ Len(ip) + Len(fp) = 0
        \/ \E i \in 1..Len(s) : s[i] # "." /\ ~IsDigit(s[i])
     THEN NaN
     ELSE Norm(DigitsVal(ip \o fp, 0), Pow10(Len(fp)))

StringToNumber(s) ==
  LET t == TrimRight(TrimLeft(s))
      neg == t # <<>> /\ Head(t) = "-"
      u == IF t # <<>> /\ Head(t) \in {"+", "-"} THEN Tail(t) ELSE t
      v == UnsignedDecimal(u)
  IN IF t = <<>> THEN Norm(0, 1)
     ELSE IF v.nan THEN NaN
     ELSE IF neg THEN Norm(0 - v.num, v.den) ELSE v

Number(raw) ==
  CASE raw.t = "null" -> Norm(0, 1)
    [] raw.t = "file" -> NaN
    [] raw.t = "str" -> StringToNumber(raw.s)

IsInteger(x) == ~x.nan /\ x.den = 1

Whole(n) == Norm(n, 1)

Gt(x, k) == ~x.nan /\ x.num > k * x.den

(***************************************************************************)
(* FormSchema.omit({id, date}): each field is parsed on its own and every  *)
(* issue is collected.  The messages are the ones the schema library       *)
(* produces: the invalid_type_error of a field is used for an issue of     *)
(* code invalid_type only; a NaN amount and a string outside the enum get  *)
(* the library's default message.                                          *)
(***************************************************************************)
CustomerMessage == "Please select a customer."

AmountMessage == "Please enter an amount greater than $0."

StatusMessage == "Please select an invoice status."

NanMessage == "Expected number, received nan"

EnumMessage(s) ==
  "Invalid enum value. Expected 'pending' | 'paid', received '" \o s \o "'"

StatusValues == {"pending", "paid"}

ParseCustomerId(raw) ==
  IF raw.t = "str" THEN [ok |-> TRUE, value |-> raw.s, issues |-> <<>>]
  ELSE [ok |-> FALSE, value |-> "", issues |-> <<CustomerMessage>>]

ParseAmount(raw) ==
  LET n == Number(raw)
  IN IF n.nan THEN [ok |-> FALSE, value |-> n, issues |-> <<NanMessage>>]
     ELSE IF ~Gt(n, 0) THEN [ok |-> FALSE, value |-> n, issues |-> <<AmountMessage>>]
     ELSE [ok |-> TRUE, value |-> n, issues |-> <<>>]

ParseStatus_AnyString(raw) ==
  IF raw.t # "str" THEN [ok |-> FALSE, value |-> "", issues |-> <<StatusMessage>>]
  ELSE [ok |-> TRUE, value |-> raw.s, issues |-> <<>>]

ParseStatus(raw) ==
  IF raw.t # "str" THEN [ok |-> FALSE, value |-> "", issues |-> <<StatusMessage>>]
  ELSE IF raw.s \notin StatusValues
  THEN [ok |-> FALSE, value |-> raw.s, issues |-> <<EnumMessage(raw.s)>>]
  ELSE [ok |-> TRUE, value |-> raw.s, issues |-> <<>>]

\* safeParse, with error.flatten().fieldErrors: a field without issues has
\* no entry there, modelled as the empty list.
safeParse(form) ==
  LET c == ParseCustomerId(form.customerId)
      a == ParseAmount(form.amount)
      s == ParseStatus(form.status)
  IN [success |-> c.ok /\ a.ok /\ s.ok,
      data |-> [customerId |-> c.value, amount |-> a.value, status |-> s.value],
      fieldErrors |->
        [customerId |-> c.issues, amount |-> a.issues, status |-> s.issues]]

\* safeParse tabulated over the submissions.
validated == [form \in FormInputs |-> safeParse(form)]

(***************************************************************************)
(* The database.  A statement either applies as a whole or fails and       *)
(* changes nothing; whether it fails is not decided by the program.  The   *)
(* id of an inserted row is generated by the database.                     *)
(***************************************************************************)
InsertStmt(customerId, cents, status, date) ==
  [stmt |-> "INSERT", id |-> 0, customer_id |-> customerId, amount |-> cents,
   status |-> status, date |-> date]

UpdateStmt(id, customerId, cents, status) ==
  [stmt |-> "UPDATE", id |-> id, customer_id |-> customerId, amount |-> cents,
   status |-> status, date |-> 0]

DeleteStmt(id) ==
  [stmt |-> "DELETE", id |-> id, customer_id |-> "", amount |-> Whole(0),
   status |-> "", date |-> 0]

Row(id, st, date) ==
  [id |-> id, customer_id |-> st.customer_id, amount |-> st.amount,
   status |-> st.status, date |-> date]

Apply(db, nid, st) ==
  CASE st.stmt = "INSERT" -> db \cup {Row(nid, st, st.date)}
    [] st.stmt = "UPDATE" ->
         {IF r.id = st.id THEN Row(r.id, st, r.date) ELSE r : r \in db}
    [] st.stmt = "DELETE" -> {r \in db : r.id # st.id}

sql(db, nid, st, dbOk) ==
  IF dbOk THEN [ok |-> TRUE, db |-> Apply(db, nid, st)]
  ELSE [ok |-> FALSE, db |-> db]

(***************************************************************************)
(* The server actions.  A run yields the table after it, the statements    *)
(* it issued, the ordered effects it had and how it ended.                 *)
(***************************************************************************)
ListingPath == "/dashboard/invoices"

Undefined == [type |-> "undefined"]

Return(v) == [kind |-> "return", value |-> v]

Thrown == [kind |-> "throw", value |-> Undefined]

Redirected(path) == [kind |-> "redirect", value |-> [path |-> path]]

amountInCents_Dollars(amount) == amount

amountInCents(amount) == Norm(amount.num * 100, amount.den)

revalidatePath(effects, path) == Append(effects, <<"revalidatePath", path>>)

redirect(effects, path) == Append(effects, <<"redirect", path>>)

SqlOk == <<"sql", "ok">>

SqlError == <<"sql", "error">>

LogError == <<"console.error", "Error deleting invoice:">>

Run(db, stmts, effects, outcome) ==
  [db |-> db, stmts |-> stmts, effects |-> effects, outcome |-> outcome]

\* Variant: redirect is called before revalidatePath; it ends the run.
writeThenRedirect_RedirectFirst(db, nid, st, dbOk, failMessage) ==
  LET r == sql(db, nid, st, dbOk)
  IN IF ~r.ok
     THEN Run(r.db, <<st>>, <<SqlError>>, Return([message |-> failMessage]))
     ELSE Run(r.db, <<st>>, redirect(<<SqlOk>>, ListingPath),
              Redirected(ListingPath))

\* Variant: the catch block does not return.
writeThenRedirect_CatchFallsThrough(db, nid, st, dbOk, failMessage) ==
  LET r == sql(db, nid, st, dbOk)
  IN Run(r.db, <<st>>,
         redirect(revalidatePath(<<IF r.ok THEN SqlOk ELSE SqlError>>,
                                 ListingPath), ListingPath),
         Redirected(ListingPath))

\* try { await sql`...` } catch { return { message } }
\* revalidatePath(listing); redirect(listing)
writeThenRedirect(db, nid, st, dbOk, failMessage) ==
  LET r == sql(db, nid, st, dbOk)
  IN IF ~r.ok
     THEN Run(r.db, <<st>>, <<SqlError>>, Return([message |-> failMessage]))
     ELSE Run(r.db, <<st>>,
              redirect(revalidatePath(<<SqlOk>>, ListingPath), ListingPath),
              Redirected(ListingPath))

createInvoiceRun(db, nid, day, form, dbOk) ==
  LET validatedFields == validated[form]
  IN IF ~validatedFields.success
     THEN Run(db, <<>>, <<>>,
              Return([errors |-> validatedFields.fieldErrors,
                      message |-> "Missing Fields. Failed to Create Invoice."]))
     ELSE LET d == validatedFields.data
          IN writeThenRedirect(db, nid,
               InsertStmt(d.customerId, amountInCents(d.amount), d.status, day),
               dbOk, "Database Error: Failed to Create Invoice.")

updateInvoiceRun(db, id, form, dbOk) ==
  LET validatedFields == validated[form]
  IN IF ~validatedFields.success
     THEN Run(db, <<>>, <<>>,
              Return([errors |-> validatedFields.fieldErrors,
                      message |-> "Missing Fields. Failed to Update Invoice."]))
     ELSE LET d == validatedFields.data
          IN writeThenRedirect(db, 0,
               UpdateStmt(id, d.customerId, amountInCents(d.amount), d.status),
               dbOk, "Database Error: Failed to Update Invoice.")

\* Variant: the catch block logs and throws again.
deleteInvoiceRun_Rethrow(db, id, dbOk) ==
  LET st == DeleteStmt(id)
      r == sql(db, 0, st, dbOk)
  IN IF r.ok
     THEN Run(r.db, <<st>>, revalidatePath(<<SqlOk>>, ListingPath),
              Return(Undefined))
     ELSE Run(r.db, <<st>>, <<SqlError, LogError>>, Thrown)

\* Variant: a DELETE that removed no row is reported as an error.
deleteInvoiceRun_LogNoMatch(db, id, dbOk) ==
  LET st == DeleteStmt(id)
      r == sql(db, 0, st, dbOk)
  IN IF r.ok /\ r.db # db
     THEN Run(r.db, <<st>>, revalidatePath(<<SqlOk>>, ListingPath),
              Return(Undefined))
     ELSE Run(r.db, <<st>>, <<IF r.ok THEN SqlOk ELSE SqlError, LogError>>,
              Return(Undefined))

deleteInvoiceRun(db, id, dbOk) ==
  LET st == DeleteStmt(id)
      r == sql(db, 0, st, dbOk)
  IN IF r.ok
     THEN Run(r.db, <<st>>, revalidatePath(<<SqlOk>>, ListingPath),
              Return(Undefined))
     ELSE Run(r.db, <<st>>, <<SqlError, LogError>>, Return(Undefined))

(***************************************************************************)
(* State: the invoices table, the id the database gives the next inserted  *)
(* row, the server's current date (UTC; any day, the same during the calls *)
(* of one behaviour), and the record of the last call.                     *)
(***************************************************************************)
NoForm == EmptyForm

Ids == 1..MaxId

Call(op, id, form, day, before, run) ==
  [op |-> op, id |-> id, form |-> form, day |-> day, before |-> before,
   stmts |-> run.stmts, effects |-> run.effects, outcome |-> run.outcome]

Init ==
  /\ invoices = {}
  /\ nextId = 1
  /\ today \in 1..MaxDay
  /\ last = Call("none", 0, NoForm, today, {}, Run({}, <<>>, <<>>, Return(Undefined)))

createInvoice(form, dbOk) ==
  /\ nextId <= MaxId
  /\ \E run \in {createInvoiceRun(invoices, nextId, today, form, dbOk)} :
        /\ invoices' = run.db
        /\ nextId' = IF run.db = invoices THEN nextId ELSE nextId + 1
        /\ last' = Call("createInvoice", 0, form, today, invoices, run)
  /\ UNCHANGED today

updateInvoice(id, form, dbOk) ==
  /\ \E run \in {updateInvoiceRun(invoices, id, form, dbOk)} :
        /\ invoices' = run.db
        /\ last' = Call("updateInvoice", id, form, today, invoices, run)
  /\ UNCHANGED <<nextId, today>>

deleteInvoice(id, dbOk) ==
  /\ \E run \in {deleteInvoiceRun(invoices, id, dbOk)} :
        /\ invoices' = run.db
        /\ last' = Call("deleteInvoice", id, NoForm, today, invoices, run)
  /\ UNCHANGED <<nextId, today>>

Next ==
  \/ \E form \in FormInputs, dbOk \in BOOLEAN : createInvoice(form, dbOk)
  \/ \E id \in Ids, form \in FormInputs, dbOk \in BOOLEAN :
       updateInvoice(id, form, dbOk)
  \/ \E id \in Ids, dbOk \in BOOLEAN : deleteInvoice(id, dbOk)

Spec == Init /\ [][Next]_vars

(***************************************************************************)
(* Vocabulary of the properties.                                           *)
(***************************************************************************)
InSeq(x, seq) == \E i \in 1..Len(seq) : seq[i] = x

Pos(x, seq) == CHOOSE i \in 1..Len(seq) : seq[i] = x

Revalidated == <<"revalidatePath", ListingPath>>

RedirectedTo == <<"redirect", ListingPath>>

IsWrite == last.op \in {"createInvoice", "updateInvoice"}

Rejected ==
  /\ last.stmts = <<>>
  /\ invoices = last.before
  /\ last.outcome.kind = "return"
  /\ "errors" \in DOMAIN last.outcome.value

FieldErrors(field) ==
  IF last.outcome.kind = "return" /\ "errors" \in DOMAIN last.outcome.value
  THEN last.outcome.value.errors[field] ELSE <<>>

StatusAllowed(raw) == raw.t = "str" /\ raw.s \in {"pending", "paid"}

BeforeIds == {r.id : r \in last.before}

\* C1: every invoice row has status "pending" or "paid", and a create or
\* update whose status field is anything else (or absent) is rejected by the
\* validation before any statement is issued.
C1_StatusClosed ==
  /\ \A r \in invoices : r.status \in {"pending", "paid"}
  /\ (IsWrite /\ ~StatusAllowed(last.form.status)) => Rejected

C1_Witness ==
  /\ last.op = "updateInvoice"
  /\ last.form.status = Str("foo")
  /\ last.id \in {r.id : r \in invoices}
  /\ Rejected

\* C2: every amount placed in an INSERT or UPDATE is a whole number of
\* cents equal to the submitted dollar amount times 100.
C2_WholeCents ==
  \A i \in 1..Len(last.stmts) :
    last.stmts[i].stmt \in {"INSERT", "UPDATE"} =>
      LET n == Number(last.form.amount)
      IN /\ IsInteger(last.stmts[i].amount)
         /\ last.stmts[i].amount.num * n.den = n.num * 100 * last.stmts[i].amount.den

\* C3: a create or update whose amount is not a number greater than 0
\* (absent and empty included) is rejected without a write, and errors.amount
\* contains "Please enter an amount greater than $0.".
C3_AmountMessage ==
  (IsWrite /\ ~Gt(Number(last.form.amount), 0)) =>
    /\ Rejected
    /\ InSeq("Please enter an amount greater than $0.", FieldErrors("amount"))

\* C4: a create or update whose status is outside {"pending", "paid"}
\* (absent or any other string) is rejected, and errors.status contains
\* "Please select an invoice status.".
C4_StatusMessage ==
  (IsWrite /\ ~StatusAllowed(last.form.status)) =>
    /\ Rejected
    /\ InSeq("Please select an invoice status.", FieldErrors("status"))

\* C5: a create or update is accepted only when customerId is a non-empty
\* string; otherwise it is rejected with errors.customerId containing
\* "Please select a customer." and nothing is written.
C5_CustomerRequired ==
  (IsWrite /\ ~(last.form.customerId.t = "str" /\ last.form.customerId.s # "")) =>
    /\ Rejected
    /\ InSeq("Please select a customer.", FieldErrors("customerId"))

\* C6: a createInvoice whose fields pass validation and whose INSERT
\* succeeds adds exactly one row, with the submitted customerId, the
\* submitted dollars times 100 ("15.50" gives 1550), the submitted status
\* and the server's current date; the rows that existed are unchanged and
\* the caller is redirected to the listing.
C6_CreateAddsOneRow ==
  (last.op = "createInvoice" /\ InSeq(SqlOk, last.effects)) =>
    /\ last.before \subseteq invoices
    /\ Cardinality(invoices \ last.before) = 1
    /\ \A r \in invoices \ last.before :
         /\ r.id \notin BeforeIds
         /\ r.customer_id = last.form.customerId.s
         /\ r.amount.num * Number(last.form.amount).den
              = Number(last.form.amount).num * 100 * r.amount.den
         /\ (last.form.amount = Str(<<"1", "5", ".", "5", "0">>)
               => r.amount = [nan |-> FALSE, num |-> 1550, den |-> 1])
         /\ r.status = last.form.status.s
         /\ r.date = last.day
    /\ last.outcome = [kind |-> "redirect", value |-> [path |-> "/dashboard/invoices"]]

C6_Witness ==
  /\ last.op = "createInvoice"
  /\ InSeq(SqlOk, last.effects)
  /\ last.form = ExampleForm
  /\ last.before # {}
  /\ last.day = 2
  /\ \E r \in invoices \ last.before : r.amount.num = 1550 /\ r.date = 2

\* C7: in all three actions the listing cache is invalidated exactly when
\* the SQL write succeeded, and after it; createInvoice and updateInvoice
\* then redirect to the listing, after the invalidation; deleteInvoice
\* never redirects.
C7_InvalidateThenRedirect ==
  last.op \in {"createInvoice", "updateInvoice", "deleteInvoice"} =>
    /\ InSeq(SqlOk, last.effects) <=> InSeq(Revalidated, last.effects)
    /\ InSeq(Revalidated, last.effects) =>
         Pos(SqlOk, last.effects) < Pos(Revalidated, last.effects)
    /\ (IsWrite /\ InSeq(SqlOk, last.effects)) =>
         /\ InSeq(RedirectedTo, last.effects)
         /\ Pos(Revalidated, last.effects) < Pos(RedirectedTo, last.effects)
         /\ last.outcome.kind = "redirect"
    /\ last.op = "deleteInvoice" =>
         /\ ~InSeq(RedirectedTo, last.effects)
         /\ last.outcome.kind # "redirect"

C7_Witness ==
  /\ last.op = "updateInvoice"
  /\ last.effects = <<SqlOk, Revalidated, RedirectedTo>>
  /\ invoices # last.before

\* C8: when the INSERT or UPDATE fails with a database error the action
\* does not throw, returns a state holding only the generic message, leaves
\* the table as it was and neither invalidates the cache nor redirects.
C8_WriteErrorReturned ==
  (IsWrite /\ InSeq(SqlError, last.effects)) =>
    /\ last.outcome.kind = "return"
    /\ DOMAIN last.outcome.value = {"message"}
    /\ last.outcome.value.message =
         (IF last.op = "createInvoice"
          THEN "Database Error: Failed to Create Invoice."
          ELSE "Database Error: Failed to Update Invoice.")
    /\ invoices = last.before
    /\ ~InSeq(Revalidated, last.effects)
    /\ ~InSeq(RedirectedTo, last.effects)

C8_Witness ==
  /\ last.op = "createInvoice"
  /\ InSeq(SqlError, last.effects)
  /\ Len(last.stmts) = 1
  /\ last.before # {}

\* C9: when the DELETE fails with a database error the error is only
\* logged: deleteInvoice returns normally, with no error value, and does
\* not redirect.
C9_DeleteErrorLogged ==
  (last.op = "deleteInvoice" /\ InSeq(SqlError, last.effects)) =>
    /\ InSeq(LogError, last.effects)
    /\ last.outcome = [kind |-> "return", value |-> Undefined]
    /\ ~InSeq(RedirectedTo, last.effects)
    /\ ~InSeq(Revalidated, last.effects)

C9_Witness ==
  /\ last.op = "deleteInvoice"
  /\ InSeq(SqlError, last.effects)
  /\ last.id \in BeforeIds

\* C10 as stated: deleteInvoice with an id that matches no row logs an
\* error and does not throw.
C10_NoMatchLogs ==
  (last.op = "deleteInvoice" /\ last.id \notin BeforeIds) =>
    /\ InSeq(LogError, last.effects)
    /\ last.outcome.kind # "throw"

\* C10 as amended: deleteInvoice with an id that matches no row does not
\* throw and leaves the table unchanged; it logs an error exactly when the
\* DELETE statement itself fails, and a DELETE that succeeds without
\* matching a row logs nothing and invalidates the listing cache.
C10_NoMatchSilent ==
  (last.op = "deleteInvoice" /\ last.id \notin BeforeIds) =>
    /\ last.outcome.kind # "throw"
    /\ invoices = last.before
    /\ InSeq(LogError, last.effects) <=> InSeq(SqlError, last.effects)
    /\ InSeq(SqlOk, last.effects) => InSeq(Revalidated, last.effects)

C10_Witness ==
  /\ last.op = "deleteInvoice"
  /\ last.id \notin BeforeIds
  /\ last.before # {}
  /\ last.effects = <<SqlOk, Revalidated>>

(***************************************************************************)
(* The listing queries of app/lib/data.ts: fetchInvoicesPages and          *)
(* fetchFilteredInvoices.  Text is a sequence of characters.  The search   *)
(* pattern is '%' query '%' under ILIKE; the queries are over characters   *)
(* other than the wildcards '%' and '_'.                                   *)
(***************************************************************************)
ITEMS_PER_PAGE == 6

MaxRows == 13

UpperCase ==
  <<"A", "B", "C", "D", "E", "F", "G", "H", "I", "J", "K", "L", "M",
    "N", "O", "P", "Q", "R", "S", "T", "U", "V", "W", "X", "Y", "Z">>

LowerCase ==
  <<"a", "b", "c", "d", "e", "f", "g", "h", "i", "j", "k", "l", "m",
    "n", "o", "p", "q", "r", "s", "t", "u", "v", "w", "x", "y", "z">>

LowerChar(c) ==
  IF \E i \in 1..26 : UpperCase[i] = c
  THEN LowerCase[CHOOSE i \in 1..26 : UpperCase[i] = c] ELSE c

ToLower(text) == [i \in 1..Len(text) |-> LowerChar(text[i])]

Contains(text, part) ==
  \E i \in 0..(Len(text) - Len(part)) :
    \A j \in 1..Len(part) : text[i + j] = part[j]

\* text ILIKE '%' || query || '%'
ILike(text, query) == Contains(ToLower(text), ToLower(query))

DigitChars == <<"0", "1", "2", "3", "4", "5", "6", "7", "8", "9">>

RECURSIVE NatText(_)
NatText(n) ==
  IF n < 10 THEN <<DigitChars[n + 1]>>
  ELSE NatText(n \div 10) \o <<DigitChars[(n % 10) + 1]>>

\* invoices.amount::text, invoices.date::text and invoices.status as text.
AmountText(amount) == NatText(amount.num)

DateText(day) == <<"2", "0", "2", "4", "-", "0", "1", "-">> \o
                 (IF day < 10 THEN <<"0">> ELSE <<>>) \o NatText(day)

StatusText(status) ==
  CASE status = "paid" -> <<"p", "a", "i", "d">>
    [] status = "pending" -> <<"p", "e", "n", "d", "i", "n", "g">>

\* The customers table, which these functions only read.
customers ==
  { [id |-> "abc", name |-> <<"L", "e", "e">>,
     email |-> <<"l", "e", "e", "@", "x", ".", "i", "o">>],
    [id |-> "def", name |-> <<"A", "m", "y">>,
     email |-> <<"a", "m", "y", "@", "x", ".", "i", "o">>] }

\* FROM invoices JOIN customers ON invoices.customer_id = customers.id
Joined(db) ==
  UNION { {[invoice |-> r, customer |-> c] :
             c \in {x \in customers : x.id = r.customer_id}} : r \in db }

Where(j, query) ==
  \/ ILike(j.customer.name, query)
  \/ ILike(j.customer.email, query)
  \/ ILike(AmountText(j.invoice.amount), query)
  \/ ILike(DateText(j.invoice.date), query)
  \/ ILike(StatusText(j.invoice.status), query)

Filtered(db, query) == {j \in Joined(db) : Where(j, query)}

(***************************************************************************)
(* The queries run against any content of the invoices table: rows of      *)
(* three kinds (one per customer, and one whose customer_id is no          *)
(* customer's id), any number of each up to MaxRows rows in all.           *)
(***************************************************************************)
KindRow(kind, id) ==
  CASE kind = 1 -> [id |-> id, customer_id |-> "abc", amount |-> Whole(1550),
                    status |-> "paid", date |-> 2]
    [] kind = 2 -> [id |-> id, customer_id |-> "def", amount |-> Whole(666),
                    status |-> "pending", date |-> 1]
    [] kind = 3 -> [id |-> id, customer_id |-> "", amount |-> Whole(1550),
                    status |-> "paid", date |-> 1]

TableOf(a, b, c) ==
  {KindRow(1, id) : id \in 1..a}
    \cup {KindRow(2, id) : id \in (a + 1)..(a + b)}
    \cup {KindRow(3, id) : id \in (a + b + 1)..(a + b + c)}

Tables ==
  {TableOf(n[1], n[2], n[3]) :
     n \in {m \in (0..MaxRows) \X (0..MaxRows) \X (0..MaxRows) :
              m[1] + m[2] + m[3] <= MaxRows}}

QueryInputs ==
  {<<>>, <<"P", "a", "i", "d">>, <<"l", "e", "e">>, <<"6", "6">>, <<"z", "z">>}

\* The rows each query selects, tabulated over the tables and the queries.
selected == [db \in Tables, query \in QueryInputs |-> Filtered(db, query)]

\* Math.floor in the place of Math.ceil.
MathCeil_Floor(n, d) == n \div d

\* Math.ceil(n / d) for a count n and d > 0.
MathCeil(n, d) == IF n % d = 0 THEN n \div d ELSE n \div d + 1

ThrownError(message) == [kind |-> "throw", value |-> [message |-> message]]

LogDatabaseError == <<"console.error", "Database Error:">>

ReadRun(effects, outcome) == [effects |-> effects, outcome |-> outcome]

fetchInvoicesPagesRun(db, query, dbOk) ==
  IF dbOk
  THEN ReadRun(<<SqlOk>>,
               Return(MathCeil(Cardinality(selected[db, query]), ITEMS_PER_PAGE)))
  ELSE ReadRun(<<SqlError, LogDatabaseError>>,
               ThrownError("Failed to fetch total number of invoices."))

\* ORDER BY invoices.date DESC: the dates of the rows in the order of the
\* result (the order of rows of one date is not determined by the query).
RECURSIVE DatesDesc(_, _)
DatesDesc(rows, day) ==
  IF day = 0 THEN <<>>
  ELSE [i \in 1..Cardinality({j \in rows : j.invoice.date = day}) |-> day]
         \o DatesDesc(rows, day - 1)

MaxDate(rows) ==
  IF rows = {} THEN 0
  ELSE CHOOSE d \in {j.invoice.date : j \in rows} :
         \A j \in rows : j.invoice.date <= d

\* LIMIT limit OFFSET offset
LimitOffset(seq, limit, offset) ==
  SubSeq(seq, offset + 1,
         IF offset + limit < Len(seq) THEN offset + limit ELSE Len(seq))

fetchFilteredInvoicesRun(db, query, currentPage, dbOk) ==
  LET offset == (currentPage - 1) * ITEMS_PER_PAGE
      rows == selected[db, query]
  IN IF dbOk
     THEN ReadRun(<<SqlOk>>,
                  Return(LimitOffset(DatesDesc(rows, MaxDate(rows)),
                                     ITEMS_PER_PAGE, offset)))
     ELSE ReadRun(<<SqlError, LogDatabaseError>>,
                  ThrownError("Failed to fetch invoices."))

PageInputs == 1..(MaxRows \div ITEMS_PER_PAGE + 2)

ReadCall(op, query, currentPage, run) ==
  [op |-> op, query |-> query, currentPage |-> currentPage,
   effects |-> run.effects, outcome |-> run.outcome]

PagesInit ==
  /\ invoices \in Tables
  /\ nextId = Cardinality(invoices) + 1
  /\ today = 1
  /\ last = ReadCall("none", <<>>, 0, ReadRun(<<>>, Return(Undefined)))

fetchInvoicesPages(query, dbOk) ==
  /\ last' = ReadCall("fetchInvoicesPages", query, 0,
                      fetchInvoicesPagesRun(invoices, query, dbOk))
  /\ UNCHANGED <<invoices, nextId, today>>

fetchFilteredInvoices(query, currentPage, dbOk) ==
  /\ last' = ReadCall("fetchFilteredInvoices", query, currentPage,
                      fetchFilteredInvoicesRun(invoices, query, currentPage, dbOk))
  /\ UNCHANGED <<invoices, nextId, today>>

PagesNext ==
  \/ \E query \in QueryInputs, dbOk \in BOOLEAN : fetchInvoicesPages(query, dbOk)
  \/ \E query \in QueryInputs, currentPage \in PageInputs, dbOk \in BOOLEAN :
       fetchFilteredInvoices(query, currentPage, dbOk)

PagesSpec == PagesInit /\ [][PagesNext]_vars

Matching == Cardinality(Filtered(invoices, last.query))

\* C11: for every query and table content, fetchInvoicesPages returns the
\* ceiling of the number of matching rows divided by 6 (0 when no row
\* matches), and 6 is also the page size of fetchFilteredInvoices: page p
\* holds the rows after the first (p - 1) * 6, at most 6 of them.
C11_PageCount ==
  /\ (last.op = "fetchInvoicesPages" /\ last.outcome.kind = "return") =>
       /\ last.outcome.value * 6 >= Matching
       /\ (last.outcome.value - 1) * 6 < Matching
       /\ last.outcome.value >= 0
       /\ Matching = 0 => last.outcome.value = 0
  /\ (last.op = "fetchFilteredInvoices" /\ last.outcome.kind = "return") =>
       LET rest == Matching - (last.currentPage - 1) * 6
       IN Len(last.outcome.value) =
            (IF rest <= 0 THEN 0 ELSE IF rest >= 6 THEN 6 ELSE rest)

C11_Witness ==
  /\ last.op = "fetchInvoicesPages"
  /\ last.query = <<"P", "a", "i", "d">>
  /\ Matching = 7
  /\ Cardinality(invoices) = 13
  /\ last.outcome.kind = "return"
  /\ last.outcome.value = 2

====
